---- MODULE Spec2Model ----
(***************************************************************************)
(* A model of the Pyrseas schema object model for functions, aggregates,   *)
(* operator families, text search objects and triggers: loading the        *)
(* desired state from a map (from_map), externalising keys (extern_key),   *)
(* computing dependencies (get_implied_deps, get_deps), and generating     *)
(* the statements that transform the observed state into the desired one   *)
(* (create, alter, diff_map, drop).                                        *)
(*                                                                         *)
(* Strings are TLA+ strings; Python's 0-based string operations are        *)
(* modelled by the operators of the first section.                         *)
(***************************************************************************)
EXTENDS Integers, Sequences, FiniteSets, TLC

VARIABLES
    \* ---- loading a desired-state map (from_map) ----
    ldpc,       \* "start" before a from_map call, "done" after it
    ldKey,      \* the key string of the entry being loaded
    ldBody,     \* the entry's body: the set of attribute names it gives
    ldRaised,   \* "none", "KeyError" or "ValueError"
    ldDict,     \* the registry (a DbObjectDict): key tuple -> object
    ldKind,     \* which registry's from_map ran
    ldExtern,   \* the extern_key() of the objects of the registry
    \* ---- comparing one observed object with its desired counterpart ----
    dfpc,       \* "edit" while the two objects are set up, then "done"
    dfKind,     \* "function" or "trigger"
    dfOld,      \* the observed object, as it is before the comparison
    dfNew,      \* the desired object, as it is before the comparison
    dfEdits,    \* the number of attribute settings made on the two objects
    dfSelf,     \* the observed object after the comparison
    dfIn,       \* the desired object after the comparison
    dfStmts,    \* the statements returned
    dfMap,      \* the map that to_map() returned
    \* ---- computing the plan that turns the observed database into the
    \* ---- desired one
    ppc,        \* "deps", "create", "drop", "done" or "failed"
    old,        \* the observed database: identifier -> object
    new,        \* the desired database: identifier -> object
    odeps,      \* get_deps() of each object of old
    ndeps,      \* get_deps() of each object of new
    pdone,      \* the objects handled in the current phase
    oshell,     \* the types of old whose _shell_created is set
    nshell,     \* the types of new whose _shell_created is set
    plan,       \* the statements emitted so far, each with its object
    sim,        \* the database that results from running plan on old
    \* ---- the dependencies of one object of a database
    dxpc,       \* "loaded", "implied", "done" or "raised"
    dxDb,       \* the database: identifier -> object
    dxId,       \* the identifier of the object asked for its dependencies
    dxImplied,  \* what get_implied_deps() returned
    dxRaised,   \* the exception raised: "none" or "KeyError"
    dxDeps,     \* what get_deps() returned
    dxSelf      \* the object after get_deps()

ldvars == <<ldpc, ldKey, ldBody, ldRaised, ldDict, ldKind, ldExtern>>

dfvars == <<dfpc, dfKind, dfOld, dfNew, dfEdits, dfSelf, dfIn, dfStmts, dfMap>>

plvars == <<ppc, old, new, odeps, ndeps, pdone, oshell, nshell, plan, sim>>

dxvars == <<dxpc, dxDb, dxId, dxImplied, dxRaised, dxDeps, dxSelf>>

vars == <<ldvars, dfvars, plvars, dxvars>>

-----------------------------------------------------------------------------
(* Python string operations, 0-based as in the source. *)

\* s[i:j] for 0 <= i, 0 <= j (indices already resolved), clipped to the string
Slice(s, i, j) ==
    LET hi == IF j > Len(s) THEN Len(s) ELSE j
    IN  IF i >= hi THEN "" ELSE SubSeq(s, i + 1, hi)

\* s[i:]
SliceFrom(s, i) == Slice(s, i, Len(s))

\* s[i:-1]
SliceButLast(s, i) == Slice(s, i, IF Len(s) = 0 THEN 0 ELSE Len(s) - 1)

\* s[-1:]
LastChar(s) == IF Len(s) = 0 THEN "" ELSE SubSeq(s, Len(s), Len(s))

\* s.startswith(p)
StartsWith(s, p) == Len(s) >= Len(p) /\ SubSeq(s, 1, Len(p)) = p

\* the 0-based positions at which t occurs in s
Occurrences(s, t) ==
    {i \in 0..(Len(s) - Len(t)) : SubSeq(s, i + 1, i + Len(t)) = t}

\* s.find(t): lowest index, or -1
Find(s, t) ==
    LET occ == Occurrences(s, t)
    IN  IF occ = {} THEN -1 ELSE CHOOSE i \in occ : \A j \in occ : i <= j

\* s.rfind(t): highest index, or -1
RFind(s, t) ==
    LET occ == Occurrences(s, t)
    IN  IF occ = {} THEN -1 ELSE CHOOSE i \in occ : \A j \in occ : i >= j

\* t in s
Contains(s, t) == Occurrences(s, t) # {}

\* s.partition(sep): <<head, sep, tail>>, or <<s, "", "">> without sep
Partition(s, sep) ==
    LET p == Find(s, sep)
    IN  IF p = -1 THEN <<s, "", "">>
        ELSE <<Slice(s, 0, p), sep, SliceFrom(s, p + Len(sep))>>

-----------------------------------------------------------------------------
(* Input strings: a kind word followed by up to MaxParts pieces. *)

MaxParts == 4

RECURSIVE Concat(_)
Concat(ps) == IF ps = <<>> THEN "" ELSE Head(ps) \o Concat(Tail(ps))

PieceSeqs(P, n) == UNION {[1..k -> P] : k \in 0..n}

Rests(P, n) == {Concat(ps) : ps \in PieceSeqs(P, n)}

SchemaName == "s1"

\* a YAML entry body: None, or a map giving the attributes in attrs
Body(A) == {[isNone |-> TRUE, attrs |-> {}]}
             \cup {[isNone |-> FALSE, attrs |-> a] : a \in SUBSET A}

\* Python's truth value of a body: None and the empty map are false
Truthy(body) == ~body.isNone /\ body.attrs # {}

\* d[k] = obj
Put(d, k, obj) == [x \in DOMAIN d \cup {k} |-> IF x = k THEN obj ELSE d[x]]

EmptyDict == [x \in {} |-> {}]

-----------------------------------------------------------------------------
(* ProcDict.from_map: functions and aggregates *)

ProcWords == {"function", "aggregate", "functions", ""}
ProcPieces == {" ", "f", "(", ")"}
ProcKeys == {w \o r : w \in ProcWords, r \in Rests(ProcPieces, MaxParts)}
ProcAttrs == {"source", "obj_file", "language"}

\* the object type word and a space must start the key
UnrecognizedType(key) ==
    LET part == Partition(key, " ")
    IN  part[2] # " " \/ part[1] \notin {"function", "aggregate"}

\* a variant that forgets the closing parenthesis
InvalidSignature_NoCloseCheck(fnc) == Find(fnc, "(") = -1

\* the rest must hold a "(" and end in ")"
InvalidSignature(fnc) == Find(fnc, "(") = -1 \/ LastChar(fnc) # ")"

\* a variant that only rejects an entry giving neither
SourceObjError_OnlyMissing(func) ==
    func.cls = "Function" /\ ~("source" \in func.attrs \/ "obj_file" \in func.attrs)

\* a Function needs exactly one of source and obj_file
SourceObjError(func) ==
    LET src == "source" \in func.attrs
        obj == "obj_file" \in func.attrs
    IN  func.cls = "Function" /\ ((src /\ obj) \/ ~(src \/ obj))

\* the Function or Aggregate object constructed for a key
NewProc(key) ==
    LET part == Partition(key, " ")
        fnc == part[3]
        paren == Find(fnc, "(")
    IN  [cls |-> IF part[1] = "function" THEN "Function" ELSE "Aggregate",
         schema |-> SchemaName,
         name |-> Slice(fnc, 0, paren),
         extra |-> SliceButLast(fnc, paren + 1),
         attrs |-> IF part[1] = "function" THEN {} ELSE {"language"}]

ObjKey(obj) == <<obj.schema, obj.name, obj.extra>>

\* one iteration of the loop of from_map: the registry and the error raised
ProcLoad(dict, key, body) ==
    IF UnrecognizedType(key) \/ InvalidSignature(Partition(key, " ")[3])
    THEN [dict |-> dict, raised |-> "KeyError"]
    ELSE LET func == NewProc(key)
             full == [func EXCEPT !.attrs = @ \cup body.attrs]
         IN  IF ~Truthy(body)
             THEN [dict |-> Put(dict, ObjKey(func), func),
                   raised |-> "ValueError"]
             ELSE [dict |-> Put(dict, ObjKey(func), full),
                   raised |-> IF SourceObjError(full) THEN "ValueError"
                              ELSE "none"]

\* the class name, upper-cased (DbObject.objtype)
ProcObjtype(obj) == IF obj.cls = "Function" THEN "FUNCTION" ELSE "AGGREGATE"

\* str.lower() on the object type words
Lower(w) ==
    CASE w = "FUNCTION" -> "function"
      [] w = "AGGREGATE" -> "aggregate"
      [] w = "OPERATOR FAMILY" -> "operator family"
      [] OTHER -> w

\* Proc.extern_key
ProcExternKey(obj) ==
    Lower(ProcObjtype(obj)) \o " " \o obj.name \o "(" \o obj.extra \o ")"

ProcFromMap ==
    /\ ldpc = "start"
    /\ \E key \in ProcKeys, body \in Body(ProcAttrs) :
          LET r == ProcLoad(ldDict, key, body)
          IN  /\ ldKey' = key
              /\ ldBody' = body
              /\ ldDict' = r.dict
              /\ ldRaised' = r.raised
    /\ ldKind' = "proc"
    /\ ldpc' = "done"

-----------------------------------------------------------------------------
(* OperatorFamilyDict.from_map *)

OpfWords == {"operator family ", "operator family", "operator class "}
OpfPieces == {"o", " ", " using ", "using "}
OpfKeys == {w \o r : w \in OpfWords, r \in Rests(OpfPieces, MaxParts)}
OpfAttrs == {"description", "owner"}

OpfPrefixLen == 16
UsingLen == 7

\* the key must start with the kind words and hold " using "
OpfUnrecognized(key) ==
    ~StartsWith(key, "operator family ") \/ ~Contains(key, " using ")

\* the OperatorFamily object constructed for a key
NewOperatorFamily(key) ==
    LET pos == RFind(key, " using ")
    IN  [cls |-> "OperatorFamily",
         schema |-> SchemaName,
         name |-> Slice(key, OpfPrefixLen, pos),
         extra |-> SliceFrom(key, pos + UsingLen),
         attrs |-> {}]

\* one iteration of the loop of from_map; a None body has no pop()
OpfLoad(dict, key, body) ==
    IF OpfUnrecognized(key)
    THEN [dict |-> dict, raised |-> "KeyError"]
    ELSE IF body.isNone
    THEN [dict |-> dict, raised |-> "AttributeError"]
    ELSE LET opfam == [NewOperatorFamily(key) EXCEPT !.attrs = body.attrs]
         IN  [dict |-> Put(dict, ObjKey(opfam), opfam), raised |-> "none"]

OpfObjtype == "OPERATOR FAMILY"

\* OperatorFamily.extern_key
OpfExternKey(obj) ==
    Lower(OpfObjtype) \o " " \o obj.name \o " using " \o obj.extra

OperatorFamilyFromMap ==
    /\ ldpc = "start"
    /\ \E key \in OpfKeys, body \in Body(OpfAttrs) :
          LET r == OpfLoad(ldDict, key, body)
          IN  /\ ldKey' = key
              /\ ldBody' = body
              /\ ldDict' = r.dict
              /\ ldRaised' = r.raised
    /\ ldKind' = "opfam"
    /\ ldpc' = "done"

-----------------------------------------------------------------------------
(* TSConfigurationDict, TSDictionaryDict, TSParserDict, TSTemplateDict *)

TSClasses == {"TSConfiguration", "TSDictionary", "TSParser", "TSTemplate"}

TSPrefix(cls) ==
    CASE cls = "TSConfiguration" -> "text search configuration "
      [] cls = "TSDictionary" -> "text search dictionary "
      [] cls = "TSParser" -> "text search parser "
      [] cls = "TSTemplate" -> "text search template "

\* the literal index at which from_map cuts the name out of the key
TSNameStart(cls) ==
    CASE cls = "TSConfiguration" -> 26
      [] cls = "TSDictionary" -> 23
      [] cls = "TSParser" -> 19
      [] cls = "TSTemplate" -> 21

TSWords == {TSPrefix(c) : c \in TSClasses}
             \cup {"text search ", "text search parser"}
TSPieces == {"p", " "}
TSKeys == {w \o r : w \in TSWords, r \in Rests(TSPieces, MaxParts)}
TSAttrs == {"parser", "description"}

TSUnrecognized(cls, key) == ~StartsWith(key, TSPrefix(cls))

\* one iteration of the loop of from_map; the body is optional
TSLoad(cls, dict, key, body) ==
    IF TSUnrecognized(cls, key)
    THEN [dict |-> dict, raised |-> "KeyError"]
    ELSE LET obj == [cls |-> cls,
                     schema |-> SchemaName,
                     name |-> SliceFrom(key, TSNameStart(cls)),
                     extra |-> "",
                     attrs |-> body.attrs]
         IN  [dict |-> Put(dict, <<obj.schema, obj.name>>, obj),
              raised |-> "none"]

TSFromMap ==
    /\ ldpc = "start"
    /\ \E cls \in TSClasses, key \in TSKeys, body \in Body(TSAttrs) :
          LET r == TSLoad(cls, ldDict, key, body)
          IN  /\ ldKey' = key
              /\ ldBody' = body
              /\ ldDict' = r.dict
              /\ ldRaised' = r.raised
              /\ ldKind' = cls
    /\ ldpc' = "done"

-----------------------------------------------------------------------------
(* TriggerDict.from_map: the keys are trigger names of one table *)

TableName == "t1"
TrigNames == Rests({"g", " "}, MaxParts)
TrigAttrs == {"level", "procedure", "description"}

\* one iteration of the loop of from_map
TriggerLoad(dict, trg, body) ==
    IF ~Truthy(body)
    THEN [dict |-> dict, raised |-> "ValueError"]
    ELSE LET trig == [cls |-> "Trigger",
                      schema |-> SchemaName,
                      name |-> trg,
                      extra |-> TableName,
                      attrs |-> body.attrs \cup {"level"}]
         IN  [dict |-> Put(dict, <<trig.schema, trig.extra, trig.name>>, trig),
              raised |-> "none"]

TriggerFromMap ==
    /\ ldpc = "start"
    /\ \E trg \in TrigNames, body \in Body(TrigAttrs) :
          LET r == TriggerLoad(ldDict, trg, body)
          IN  /\ ldKey' = trg
              /\ ldBody' = body
              /\ ldDict' = r.dict
              /\ ldRaised' = r.raised
    /\ ldKind' = "trigger"
    /\ ldpc' = "done"

-----------------------------------------------------------------------------
(* Exporting the keys of a loaded registry (extern_key) *)

ExternKey(obj) ==
    CASE obj.cls \in {"Function", "Aggregate"} -> ProcExternKey(obj)
      [] obj.cls = "OperatorFamily" -> OpfExternKey(obj)

ExternKeys ==
    /\ ldpc = "done"
    /\ ldRaised = "none"
    /\ ldKind \in {"proc", "opfam"}
    /\ ldExtern' = {ExternKey(ldDict[k]) : k \in DOMAIN ldDict}
    /\ ldpc' = "exported"
    /\ UNCHANGED <<ldKey, ldBody, ldRaised, ldDict, ldKind>>

LoadInit ==
    /\ ldpc = "start"
    /\ ldKey = ""
    /\ ldBody = [isNone |-> TRUE, attrs |-> {}]
    /\ ldRaised = "none"
    /\ ldDict = EmptyDict
    /\ ldKind = "none"
    /\ ldExtern = {}

LoadNext ==
    \/ ProcFromMap /\ UNCHANGED <<ldExtern, dfvars, plvars, dxvars>>
    \/ OperatorFamilyFromMap /\ UNCHANGED <<ldExtern, dfvars, plvars, dxvars>>
    \/ TSFromMap /\ UNCHANGED <<ldExtern, dfvars, plvars, dxvars>>
    \/ TriggerFromMap /\ UNCHANGED <<ldExtern, dfvars, plvars, dxvars>>
    \/ ExternKeys /\ UNCHANGED <<dfvars, plvars, dxvars>>

\* the comparison machine, idle
DiffIdle ==
    /\ dfpc = "idle"
    /\ dfKind = "none"
    /\ dfOld = EmptyDict /\ dfNew = EmptyDict
    /\ dfSelf = EmptyDict /\ dfIn = EmptyDict
    /\ dfEdits = 0
    /\ dfStmts = <<>>
    /\ dfMap = EmptyDict


-----------------------------------------------------------------------------
(* Schema objects as attribute dictionaries.  An object is a function    *)
(* from the names of the attributes it has to their values; None is the  *)
(* string "None", True and False are "True" and "False".                 *)

None == "None"

\* hasattr(o, a)
Hasattr(o, a) == a \in DOMAIN o

\* getattr(o, a, None)
Getattr(o, a) == IF a \in DOMAIN o THEN o[a] ELSE None

\* setattr(o, a, v)
Setattr(o, a, v) == [x \in DOMAIN o \cup {a} |-> IF x = a THEN v ELSE o[x]]

\* del o.a
Delattr(o, a) == [x \in DOMAIN o \ {a} |-> o[x]]

\* the truth value of an attribute value
IsTrue(v) == v \notin {None, "False", ""}

\* sep.join(seq)
RECURSIVE Join(_, _)
Join(seq, sep) ==
    IF seq = <<>> THEN ""
    ELSE IF Len(seq) = 1 THEN seq[1]
    ELSE seq[1] \o sep \o Join(Tail(seq), sep)

\* str.upper() on the words that are upper-cased
Upper(w) ==
    CASE w = "insert" -> "INSERT"
      [] w = "update" -> "UPDATE"
      [] w = "delete" -> "DELETE"
      [] w = "truncate" -> "TRUNCATE"
      [] w = "before" -> "BEFORE"
      [] w = "after" -> "AFTER"
      [] w = "instead of" -> "INSTEAD OF"
      [] w = "row" -> "ROW"
      [] w = "statement" -> "STATEMENT"
      [] w = "immutable" -> "IMMUTABLE"
      [] w = "stable" -> "STABLE"
      [] w = "volatile" -> "VOLATILE"
      [] OTHER -> w

\* DbSchemaObject.qualname: the schema-qualified name
Qualname(o) == o["schema"] \o "." \o o["name"]

\* Proc.identifier
ProcIdentifier(o) == Qualname(o) \o "(" \o o["arguments"] \o ")"

VOLATILITY_TYPES(v) ==
    CASE v = "i" -> "immutable"
      [] v = "s" -> "stable"
      [] v = "v" -> "volatile"

-----------------------------------------------------------------------------
(* Function.create, Function.alter, Function.drop.  A statement is a     *)
(* record of the pieces that the format string puts together.  A type    *)
(* object is named by its qualname, which is the value of _defining;     *)
(* shell is the set of the types of the function's database whose        *)
(* _shell_created is set.                                                *)

\* the AS clause of CREATE FUNCTION
FunctionSrc(self, newsrc) ==
    IF Hasattr(self, "obj_file")
    THEN "'" \o self["obj_file"] \o "', '"
           \o (IF Hasattr(self, "link_symbol") /\ IsTrue(self["link_symbol"])
               THEN self["link_symbol"] ELSE self["name"]) \o "'"
    ELSE IF self["language"] = "internal"
    THEN "$$" \o (IF IsTrue(newsrc) THEN newsrc ELSE self["source"]) \o "$$"
    ELSE "$_$" \o (IF IsTrue(newsrc) THEN newsrc ELSE self["source"]) \o "$_$"

\* a COST clause that knows only the default of the procedural languages
CostClause_OneDefault(self) ==
    IF Hasattr(self, "cost") /\ self["cost"] # 0 /\ self["cost"] # 100
    THEN " COST " \o ToString(self["cost"]) ELSE ""

\* the COST clause: nothing for an unset cost, 0, or the language's default
CostClause(self) ==
    IF Hasattr(self, "cost") /\ self["cost"] # 0
    THEN IF self["language"] \in {"c", "internal"}
         THEN IF self["cost"] # 1
              THEN " COST " \o ToString(self["cost"]) ELSE ""
         ELSE IF self["cost"] # 100
              THEN " COST " \o ToString(self["cost"]) ELSE ""
    ELSE ""

\* the ROWS clause
RowsClause(self) ==
    IF Hasattr(self, "rows") /\ self["rows"] # 0 /\ self["rows"] # 1000
    THEN " ROWS " \o ToString(self["rows"]) ELSE ""

\* the shell type statement of a defining function, the first time only
ShellStmts(self, shell) ==
    IF Hasattr(self, "_defining") /\ self["_defining"] \notin shell
    THEN <<[verb |-> "CREATE TYPE", name |-> self["_defining"]]>>
    ELSE <<>>

\* create() that leaves _shell_created unset
ShellAfter_NeverMarks(self, shell) == shell

\* the types marked _shell_created after create()
ShellAfter(self, shell) ==
    IF Hasattr(self, "_defining") THEN shell \cup {self["_defining"]}
    ELSE shell

\* the CREATE [OR REPLACE] FUNCTION statement
CreateFunctionStmt(self, newsrc) ==
    [verb |-> "CREATE" \o (IF IsTrue(newsrc) THEN " OR REPLACE" ELSE "")
                \o " FUNCTION",
     name |-> Qualname(self),
     args |-> IF Hasattr(self, "allargs") THEN self["allargs"]
              ELSE self["arguments"],
     returns |-> self["returns"],
     language |-> self["language"],
     volat |-> IF Hasattr(self, "volatility")
               THEN " " \o Upper(VOLATILITY_TYPES(self["volatility"]))
               ELSE "",
     leakproof |-> IF Hasattr(self, "leakproof") /\ self["leakproof"] = "True"
                   THEN " LEAKPROOF" ELSE "",
     strict |-> IF Hasattr(self, "strict") /\ IsTrue(self["strict"])
                THEN " STRICT" ELSE "",
     secdef |-> IF Hasattr(self, "security_definer")
                     /\ IsTrue(self["security_definer"])
                THEN " SECURITY DEFINER" ELSE "",
     cost |-> CostClause(self),
     rows |-> RowsClause(self),
     config |-> IF Hasattr(self, "configuration")
                THEN " SET " \o self["configuration"] ELSE "",
     src |-> FunctionSrc(self, newsrc)]

\* Function.create(newsrc): the statements and the shell flags afterwards
FunctionCreate(self, newsrc, shell) ==
    [stmts |-> ShellStmts(self, shell) \o <<CreateFunctionStmt(self, newsrc)>>,
     shell |-> ShellAfter(self, shell)]

\* the CREATE OR REPLACE of alter(), when both have a source and they differ
AlterSource(self, infunction, shell) ==
    IF Hasattr(self, "source") /\ Hasattr(infunction, "source")
         /\ self["source"] # infunction["source"]
    THEN FunctionCreate(self, infunction["source"], shell)
    ELSE [stmts |-> <<>>, shell |-> shell]

\* an alter() that never takes the flag back
AlterLeakproof_NoRevoke(self, infunction) ==
    IF Hasattr(infunction, "leakproof") /\ infunction["leakproof"] = "True"
    THEN <<[verb |-> "ALTER FUNCTION", name |-> ProcIdentifier(self),
            action |-> "LEAKPROOF"]>>
    ELSE <<>>

\* the ALTER FUNCTION ... LEAKPROOF statement of alter()
AlterLeakproof(self, infunction) ==
    IF Hasattr(self, "leakproof") /\ self["leakproof"] = "True"
    THEN IF Hasattr(infunction, "leakproof") /\ infunction["leakproof"] = "True"
         THEN <<[verb |-> "ALTER FUNCTION", name |-> ProcIdentifier(self),
                 action |-> "LEAKPROOF"]>>
         ELSE <<[verb |-> "ALTER FUNCTION", name |-> ProcIdentifier(self),
                 action |-> "NOT LEAKPROOF"]>>
    ELSE IF Hasattr(infunction, "leakproof") /\ infunction["leakproof"] = "True"
    THEN <<[verb |-> "ALTER FUNCTION", name |-> Qualname(self),
            action |-> "LEAKPROOF"]>>
    ELSE <<>>

\* DbSchemaObject.alter: owner, privileges and description, not modelled
BaseAlter(self, inobj) == <<>>

\* Function.alter(infunction)
FunctionAlter(self, infunction, shell) ==
    LET src == AlterSource(self, infunction, shell)
    IN  [stmts |-> src.stmts \o AlterLeakproof(self, infunction)
                     \o BaseAlter(self, infunction),
         shell |-> src.shell]

\* DbSchemaObject.drop
BaseDrop(self, objtype, identifier) ==
    <<[verb |-> "DROP " \o objtype, name |-> identifier]>>

\* Function.drop
FunctionDrop(self) ==
    IF Hasattr(self, "_defining") /\ IsTrue(self["_defining"])
    THEN <<>>
    ELSE BaseDrop(self, "FUNCTION", ProcIdentifier(self))

\* DbObject._base_map: the attributes, without those of the key
BaseMap(self) ==
    [a \in DOMAIN self \ {"schema", "name", "arguments"} |-> self[a]]

\* to_map: volatility by its word, or left out when volatile
MapVolatility(self, dct) ==
    IF self["volatility"] = "v" THEN Delattr(dct, "volatility")
    ELSE Setattr(dct, "volatility", VOLATILITY_TYPES(self["volatility"]))

\* to_map: the source of a function in an object file is its link symbol
MapObjFile(self, dct) ==
    IF Hasattr(self, "obj_file")
    THEN Delattr(Setattr(dct, "link_symbol", self["source"]), "source")
    ELSE dct

\* to_map: the cost left out when it is the default of the language
MapCost(self, dct) ==
    IF Hasattr(self, "cost") /\ self["cost"] # 0
    THEN IF self["language"] \in {"c", "internal"}
         THEN IF self["cost"] = 1 THEN Delattr(dct, "cost") ELSE dct
         ELSE IF self["cost"] = 100 THEN Delattr(dct, "cost") ELSE dct
    ELSE dct

\* to_map: rows left out when it is the default
MapRows(self, dct) ==
    IF Hasattr(self, "rows") /\ self["rows"] # 0 /\ self["rows"] = 1000
    THEN Delattr(dct, "rows") ELSE dct

\* Function.to_map
FunctionToMap(self) ==
    MapRows(self, MapCost(self, MapObjFile(self,
        MapVolatility(self, BaseMap(self)))))

-----------------------------------------------------------------------------
(* Trigger.create, Trigger.diff_map *)

\* Trigger.identifier: the name and the qualname of the table
TriggerIdentifier(self) ==
    self["name"] \o " ON " \o self["schema"] \o "." \o self["table"]

\* the events, upper-cased, UPDATE taking the columns when there are any
TriggerEvts(self) ==
    LET up == [i \in 1..Len(self["events"]) |-> Upper(self["events"][i])]
        withcols ==
            [i \in 1..Len(up) |->
                IF up[i] = "UPDATE"
                THEN "UPDATE OF " \o Join(self["columns"], ", ")
                ELSE up[i]]
    IN  IF Hasattr(self, "columns")
             /\ \E i \in 1..Len(self["events"]) : self["events"][i] = "update"
        THEN Join(withcols, " OR ")
        ELSE Join(up, " OR ")

\* the DEFERRABLE / INITIALLY DEFERRED clause of a constraint trigger
TriggerDefer(self) ==
    LET isconstr == Hasattr(self, "constraint") /\ IsTrue(self["constraint"])
        d1 == IF isconstr /\ Hasattr(self, "deferrable")
                   /\ IsTrue(self["deferrable"])
              THEN "DEFERRABLE " ELSE ""
        d2 == IF isconstr /\ Hasattr(self, "initially_deferred")
                   /\ IsTrue(self["initially_deferred"])
              THEN d1 \o "INITIALLY DEFERRED" ELSE d1
    IN  d2

\* Trigger.create
TriggerCreate(self) ==
    <<[verb |-> "CREATE TRIGGER",
       constr |-> IF Hasattr(self, "constraint") /\ IsTrue(self["constraint"])
                  THEN "CONSTRAINT " ELSE "",
       name |-> self["name"],
       timing |-> Upper(self["timing"]),
       evts |-> TriggerEvts(self),
       table |-> self["schema"] \o "." \o self["table"],
       defer |-> TriggerDefer(self),
       level |-> Upper(self["level"]),
       cond |-> IF Hasattr(self, "condition")
                THEN "WHEN (" \o self["condition"] \o ")" ELSE "",
       procedure |-> self["procedure"]]>>

\* the attributes that diff_map compares one by one
DiffAttrs == <<"constraint", "deferrable", "initially_deferred", "update",
               "condition", "procedure", "timing", "level">>

\* the elements of a sequence
Range(seq) == {seq[i] : i \in 1..Len(seq)}

\* the loop of diff_map: self takes the attributes of intrg that differ
RECURSIVE CopyDiffering(_, _, _)
CopyDiffering(self, intrg, attrs) ==
    IF attrs = <<>> THEN self
    ELSE LET attr == Head(attrs)
             next == IF Getattr(self, attr) # Getattr(intrg, attr)
                     THEN Setattr(self, attr, Getattr(intrg, attr))
                     ELSE self
         IN  CopyDiffering(next, intrg, Tail(attrs))

\* whether diff_map finds a difference
TriggerSame(self, intrg) ==
    /\ \A i \in 1..Len(DiffAttrs) :
          Getattr(self, DiffAttrs[i]) = Getattr(intrg, DiffAttrs[i])
    /\ Range(self["events"]) = Range(intrg["events"])

\* self after diff_map
TriggerAfterDiff(self, intrg) ==
    LET copied == CopyDiffering(self, intrg, DiffAttrs)
    IN  IF Range(self["events"]) # Range(intrg["events"])
        THEN Setattr(copied, "events", intrg["events"])
        ELSE copied

\* Trigger.diff_map(intrg): the statements and the trigger afterwards
TriggerDiffMap(self, intrg) ==
    LET after == TriggerAfterDiff(self, intrg)
    IN  [stmts |-> IF ~TriggerSame(self, intrg)
                   THEN <<[verb |-> "DROP TRIGGER",
                           name |-> TriggerIdentifier(after)]>>
                          \o TriggerCreate(after)
                   ELSE <<>>,
         self |-> after]

-----------------------------------------------------------------------------
(* Comparing an observed object with the desired one: both start as the  *)
(* same object and get up to MaxEdits attribute settings between them,   *)
(* then alter() or diff_map() runs.                                      *)

MaxEdits == 3

Absent == "<absent>"

BaseFunction ==
    [schema |-> SchemaName, name |-> "f", arguments |-> "integer",
     returns |-> "integer", language |-> "sql", source |-> "src1"]

BaseTrigger ==
    [schema |-> SchemaName, table |-> TableName, name |-> "tr",
     timing |-> "before", level |-> "row", events |-> <<"insert">>,
     procedure |-> "f()"]

\* the string-valued attribute settings of each kind
StrEdits(kind) ==
    IF kind = "function"
    THEN ({"source"} \X {"src1", "src2"})
           \cup ({"leakproof"} \X {Absent, "True", "False"})
           \cup ({"returns"} \X {"integer", "text"})
           \cup ({"language"} \X {"sql", "internal"})
           \cup ({"volatility"} \X {Absent, "v", "i"})
    ELSE ({"constraint", "deferrable", "initially_deferred"} \X {Absent, "True"})
           \cup ({"condition"} \X {Absent, "NEW.a > 0"})
           \cup ({"procedure"} \X {"f()", "g()"})
           \cup ({"timing"} \X {"before", "after"})
           \cup ({"level"} \X {"row", "statement"})

\* the list-valued attribute settings; the empty list stands for no attribute
SeqEdits(kind) ==
    IF kind = "function" THEN {}
    ELSE ({"events"} \X {<<"insert">>, <<"insert", "update">>,
                         <<"update", "insert">>})
           \cup ({"columns"} \X {<<>>, <<"a">>, <<"b">>})

\* the number-valued attribute settings; -1 stands for no attribute
IntEdits(kind) ==
    IF kind = "function"
    THEN ({"cost"} \X {-1, 0, 1, 100, 5}) \cup ({"rows"} \X {-1, 0, 1000, 10})
    ELSE {}

ApplyStr(o, e) ==
    IF e[2] = Absent THEN Delattr(o, e[1]) ELSE Setattr(o, e[1], e[2])

ApplySeq(o, e) ==
    IF e[2] = <<>> THEN Delattr(o, e[1]) ELSE Setattr(o, e[1], e[2])

ApplyInt(o, e) ==
    IF e[2] = -1 THEN Delattr(o, e[1]) ELSE Setattr(o, e[1], e[2])

\* the objects that one more attribute setting makes of o
Edited(kind, o) ==
    ({ApplyStr(o, e) : e \in StrEdits(kind)}
       \cup {ApplySeq(o, e) : e \in SeqEdits(kind)}
       \cup {ApplyInt(o, e) : e \in IntEdits(kind)}) \ {o}

EditObserved ==
    /\ dfpc = "edit"
    /\ dfEdits < MaxEdits
    /\ \E o \in Edited(dfKind, dfOld) : dfOld' = o /\ dfSelf' = o
    /\ dfEdits' = dfEdits + 1
    /\ UNCHANGED <<dfpc, dfKind, dfNew, dfIn, dfStmts, dfMap>>

EditDesired ==
    /\ dfpc = "edit"
    /\ dfEdits < MaxEdits
    /\ \E o \in Edited(dfKind, dfNew) : dfNew' = o /\ dfIn' = o
    /\ dfEdits' = dfEdits + 1
    /\ UNCHANGED <<dfpc, dfKind, dfOld, dfSelf, dfStmts, dfMap>>

\* old.alter(new) for a function that defines no type
DoFunctionAlter ==
    /\ dfpc = "edit"
    /\ dfKind = "function"
    /\ dfStmts' = FunctionAlter(dfOld, dfNew, {}).stmts
    /\ dfpc' = "done"
    /\ UNCHANGED <<dfKind, dfOld, dfNew, dfEdits, dfSelf, dfIn, dfMap>>

\* new.create() for a function that defines no type
DoFunctionCreate ==
    /\ dfpc = "edit"
    /\ dfKind = "function"
    /\ dfStmts' = FunctionCreate(dfNew, None, {}).stmts
    /\ dfpc' = "created"
    /\ UNCHANGED <<dfKind, dfOld, dfNew, dfEdits, dfSelf, dfIn, dfMap>>

\* old.to_map() for a function; a function without volatility has no
\* such attribute to read
DoFunctionToMap ==
    /\ dfpc = "edit"
    /\ dfKind = "function"
    /\ IF Hasattr(dfOld, "volatility")
       THEN dfMap' = FunctionToMap(dfOld) /\ dfpc' = "exported"
       ELSE dfMap' = dfMap /\ dfpc' = "raised"
    /\ UNCHANGED <<dfKind, dfOld, dfNew, dfEdits, dfSelf, dfIn, dfStmts>>

\* old.diff_map(new) for a trigger
DoTriggerDiffMap ==
    /\ dfpc = "edit"
    /\ dfKind = "trigger"
    /\ LET r == TriggerDiffMap(dfOld, dfNew)
       IN  dfStmts' = r.stmts /\ dfSelf' = r.self
    /\ dfpc' = "done"
    /\ UNCHANGED <<dfKind, dfOld, dfNew, dfEdits, dfIn, dfMap>>

DiffInit ==
    /\ dfpc = "edit"
    /\ dfKind \in {"function", "trigger"}
    /\ dfOld = (IF dfKind = "function" THEN BaseFunction ELSE BaseTrigger)
    /\ dfNew = dfOld
    /\ dfSelf = dfOld
    /\ dfIn = dfOld
    /\ dfEdits = 0
    /\ dfStmts = <<>>
    /\ dfMap = EmptyDict

DiffNext ==
    \/ EditObserved /\ UNCHANGED <<ldvars, plvars, dxvars>>
    \/ EditDesired /\ UNCHANGED <<ldvars, plvars, dxvars>>
    \/ DoFunctionAlter /\ UNCHANGED <<ldvars, plvars, dxvars>>
    \/ DoFunctionCreate /\ UNCHANGED <<ldvars, plvars, dxvars>>
    \/ DoFunctionToMap /\ UNCHANGED <<ldvars, plvars, dxvars>>
    \/ DoTriggerDiffMap /\ UNCHANGED <<ldvars, plvars, dxvars>>

\* the loading machine, idle
LoadIdle ==
    /\ ldpc = "idle"
    /\ ldKey = ""
    /\ ldBody = [isNone |-> TRUE, attrs |-> {}]
    /\ ldRaised = "none"
    /\ ldDict = EmptyDict
    /\ ldKind = "none"
    /\ ldExtern = {}

-----------------------------------------------------------------------------
(* Databases: a database maps the identifier of each object it holds to  *)
(* the object; the attribute kind tells a type, a function, a trigger    *)
(* and a table apart.                                                    *)

\* the identifier of an object
Id(o) ==
    CASE o["kind"] = "function" -> ProcIdentifier(o)
      [] o["kind"] = "trigger" -> TriggerIdentifier(o)
      [] OTHER -> Qualname(o)

\* s.split(sep), for a separator that s does not end with
RECURSIVE Split(_, _)
Split(str, sep) ==
    LET p == Find(str, sep)
    IN  IF p = -1 THEN <<str>>
        ELSE <<Slice(str, 0, p)>> \o Split(SliceFrom(str, p + Len(sep)), sep)

\* arg.split()[-1]: the last word of an argument declaration
LastWord(arg) ==
    LET p == RFind(arg, " ")
    IN  IF p = -1 THEN arg ELSE SliceFrom(arg, p + 1)

\* split_schema_obj(obj, sch): the schema and the name of "schema.name"
SplitSchemaObj(obj, sch) ==
    LET p == Find(obj, ".")
    IN  IF p = -1 THEN <<sch, obj>>
        ELSE <<Slice(obj, 0, p), SliceFrom(obj, p + 1)>>

\* db.find_type(name): the types of db called name, qualified or not
FindType(db, name) ==
    {i \in DOMAIN db : db[i]["kind"] = "type"
                       /\ name \in {db[i]["name"], Qualname(db[i])}}

\* db.functions.get((schema, name, arguments))
FindFunction(db, schema, name, arguments) ==
    {i \in DOMAIN db : /\ db[i]["kind"] = "function"
                       /\ db[i]["schema"] = schema
                       /\ db[i]["name"] = name
                       /\ db[i]["arguments"] = arguments}

\* the types named by the arguments of a procedure
ArgTypeDeps(self, db) ==
    IF self["arguments"] = "" THEN {}
    ELSE LET args == Split(self["arguments"], ", ")
         IN  UNION {FindType(db, LastWord(args[i])) : i \in 1..Len(args)}

\* db.languages.get(self.language): the language, if the database has it
LanguageDeps(self, db) ==
    IF IsTrue(Getattr(self, "language"))
    THEN {i \in DOMAIN db : db[i]["kind"] = "language"
                             /\ db[i]["name"] = self["language"]}
    ELSE {}

\* Proc.get_implied_deps: the language and the argument types
ProcImpliedDeps(self, db) == LanguageDeps(self, db) \cup ArgTypeDeps(self, db)

\* get_implied_deps that leaves out the return type
ReturnTypeDeps_None(self, db) == {}

\* the return type, without SETOF
ReturnTypeDeps(self, db) ==
    LET r == self["returns"]
    IN  FindType(db, IF StartsWith(r, "SETOF ") THEN SliceFrom(r, 6) ELSE r)

\* Function.get_implied_deps
FunctionImpliedDeps(self, db) ==
    ProcImpliedDeps(self, db) \cup ReturnTypeDeps(self, db)

ConverterAttrs == {"input", "output", "send", "receive"}

\* whether a type names this function as one of its converters
NamesAsConverter(type, self) ==
    \E attr \in ConverterAttrs :
        IsTrue(Getattr(type, attr)) /\ Getattr(type, attr) = Qualname(self)

\* get_deps that removes no dependency
LoopTypes_None(self, db, deps) == {}

\* the types that get_deps removes from the dependencies of a function
LoopTypes(self, db, deps) ==
    {d \in deps : db[d]["kind"] = "type" /\ NamesAsConverter(db[d], self)}

\* Function.get_deps: the dependencies, and the function with _defining set
FunctionGetDeps(self, db) ==
    LET deps == FunctionImpliedDeps(self, db)
        loop == LoopTypes(self, db, deps)
    IN  [deps |-> deps \ loop,
         self |-> IF loop = {} THEN self
                  ELSE Setattr(self, "_defining", CHOOSE d \in loop : TRUE)]

\* the argument list that each converter of a type takes
ConverterArgs(type, attr) ==
    CASE attr = "input" -> "cstring"
      [] attr = "output" -> type["name"]
      [] attr = "send" -> type["name"]
      [] attr = "receive" -> "internal"

\* DbType.find_defining_funcs: the functions that are the converters
FindDefiningFuncs(type, db) ==
    UNION {LET sn == SplitSchemaObj(type[attr], type["schema"])
           IN  FindFunction(db, sn[1], sn[2], ConverterArgs(type, attr))
           : attr \in {a \in ConverterAttrs : Hasattr(type, a)}}

\* whether an object with the key exists (db.tables[...], db.functions[...])
Missing(found) == found = {}

\* the routine that a trigger looks up, if it looks one up
TriggerRoutine(self, db) ==
    LET sn == SplitSchemaObj(self["procedure"], self["schema"])
    IN  IF Hasattr(self, "_iscfg") \/ StartsWith(sn[2], "tsvector_update_trigger")
        THEN [looked |-> FALSE, found |-> {}]
        ELSE [looked |-> TRUE, found |-> FindFunction(db, sn[1], sn[2], "")]

\* the table of a trigger
TriggerTable(self, db) ==
    {i \in DOMAIN db : /\ db[i]["kind"] = "table"
                       /\ db[i]["schema"] = self["schema"]
                       /\ db[i]["name"] = self["table"]}

\* Trigger.get_implied_deps: the dependencies, or the KeyError of a lookup
TriggerImpliedDeps(self, db) ==
    LET tbl == TriggerTable(self, db)
        rtn == TriggerRoutine(self, db)
    IN  IF Missing(tbl) \/ (rtn.looked /\ Missing(rtn.found))
        THEN [raised |-> "KeyError", deps |-> {}]
        ELSE [raised |-> "none", deps |-> tbl \cup rtn.found]

\* get_deps of the object i of db
GetDeps(db, i) ==
    CASE db[i]["kind"] = "function" ->
           [raised |-> "none", deps |-> FunctionGetDeps(db[i], db).deps]
      [] db[i]["kind"] = "trigger" -> TriggerImpliedDeps(db[i], db)
      [] db[i]["kind"] = "type" ->
           [raised |-> "none", deps |-> FindDefiningFuncs(db[i], db)]
      [] OTHER -> [raised |-> "none", deps |-> {}]

\* the objects of db after get_deps ran on each of them
AfterGetDeps(db) ==
    [i \in DOMAIN db |->
        IF db[i]["kind"] = "function" THEN FunctionGetDeps(db[i], db).self
        ELSE db[i]]

\* ProcDict.link_refs: each converter of a type is marked as defining it
LinkRefs(db) ==
    [i \in DOMAIN db |->
        LET ts == {t \in DOMAIN db : db[t]["kind"] = "type"
                                    /\ i \in FindDefiningFuncs(db[t], db)}
        IN  IF ts = {} THEN db[i]
            ELSE Setattr(db[i], "_defining", CHOOSE t \in ts : TRUE)]

-----------------------------------------------------------------------------
(* The statements of each object: create, alter, drop *)

\* the full definition of a type
TypeCreate(self) ==
    <<[verb |-> "CREATE TYPE", name |-> Qualname(self),
       input |-> Getattr(self, "input"), output |-> Getattr(self, "output")]>>

\* a type goes with everything that uses it
TypeDrop(self) ==
    <<[verb |-> "DROP TYPE", name |-> Qualname(self), cascade |-> TRUE]>>

TableCreate(self) == <<[verb |-> "CREATE TABLE", name |-> Qualname(self)]>>

TableDrop(self) == BaseDrop(self, "TABLE", Qualname(self))

TriggerDrop(self) == BaseDrop(self, "TRIGGER", TriggerIdentifier(self))

\* whether a statement is the shell declaration of a type
IsShell(stmt) == stmt.verb = "CREATE TYPE" /\ DOMAIN stmt = {"verb", "name"}

\* new.create() for an object that the observed database lacks
CreateObj(self, shell) ==
    CASE self["kind"] = "function" -> FunctionCreate(self, None, shell)
      [] self["kind"] = "trigger" ->
           [stmts |-> TriggerCreate(self), shell |-> shell]
      [] self["kind"] = "type" -> [stmts |-> TypeCreate(self), shell |-> shell]
      [] OTHER -> [stmts |-> TableCreate(self), shell |-> shell]

\* old.alter(new) or old.diff_map(new) for an object of both databases:
\* the statements, the shell flags and the observed object afterwards
AlterObj(self, inobj, shell) ==
    CASE self["kind"] = "function" ->
           LET r == FunctionAlter(self, inobj, shell)
           IN  [stmts |-> r.stmts, shell |-> r.shell, self |-> self]
      [] self["kind"] = "trigger" ->
           LET r == TriggerDiffMap(self, inobj)
           IN  [stmts |-> r.stmts, shell |-> shell, self |-> r.self]
      [] OTHER -> [stmts |-> <<>>, shell |-> shell, self |-> self]

\* old.drop() for an object that the desired database lacks
DropObj(self) ==
    CASE self["kind"] = "function" -> FunctionDrop(self)
      [] self["kind"] = "trigger" -> TriggerDrop(self)
      [] self["kind"] = "type" -> TypeDrop(self)
      [] OTHER -> TableDrop(self)

-----------------------------------------------------------------------------
(* Running statements: the simulated database maps the identifier of     *)
(* each object to its description, the CREATE statement that makes it.   *)

\* the description of an object: its own CREATE statement
Describe(o) ==
    CASE o["kind"] = "function" -> CreateFunctionStmt(o, None)
      [] o["kind"] = "trigger" -> TriggerCreate(o)[1]
      [] o["kind"] = "type" -> TypeCreate(o)[1]
      [] OTHER -> TableCreate(o)[1]

\* the state of a database
StateOf(db) == [i \in DOMAIN db |-> Describe(db[i])]

\* the identifier of the object that a CREATE statement makes
CreatedId(stmt) ==
    CASE stmt.verb \in {"CREATE FUNCTION", "CREATE OR REPLACE FUNCTION"} ->
           stmt.name \o "(" \o stmt.args \o ")"
      [] stmt.verb = "CREATE TRIGGER" -> stmt.name \o " ON " \o stmt.table
      [] OTHER -> stmt.name

\* whether a function description mentions a type in its signature
UsesType(desc, tname) ==
    /\ desc.verb = "CREATE FUNCTION"
    /\ \E w \in {desc.returns} \cup Range(Split(desc.args, ", ")) :
          tname \in {w, SchemaName \o "." \o w}

\* the database after one statement
ApplyStmt(st, stmt) ==
    CASE IsShell(stmt) ->
           IF stmt.name \in DOMAIN st THEN st ELSE Put(st, stmt.name, stmt)
      [] stmt.verb = "CREATE OR REPLACE FUNCTION" ->
           Put(st, CreatedId(stmt), [stmt EXCEPT !.verb = "CREATE FUNCTION"])
      [] stmt.verb \in {"CREATE FUNCTION", "CREATE TRIGGER", "CREATE TABLE",
                        "CREATE TYPE"} ->
           Put(st, CreatedId(stmt), stmt)
      [] stmt.verb = "ALTER FUNCTION" ->
           [i \in DOMAIN st |->
              IF st[i].verb = "CREATE FUNCTION"
                   /\ stmt.name \in {i, st[i].name}
              THEN [st[i] EXCEPT !.leakproof =
                      IF stmt.action = "LEAKPROOF" THEN " LEAKPROOF" ELSE ""]
              ELSE st[i]]
      [] stmt.verb = "DROP TYPE" ->
           [i \in {j \in DOMAIN st : j # stmt.name /\ ~UsesType(st[j], stmt.name)}
              |-> st[i]]
      [] OTHER -> [i \in DOMAIN st \ {stmt.name} |-> st[i]]

RECURSIVE ApplyAll(_, _)
ApplyAll(st, stmts) ==
    IF stmts = <<>> THEN st
    ELSE ApplyAll(ApplyStmt(st, Head(stmts)), Tail(stmts))

-----------------------------------------------------------------------------
(* The databases that a plan is computed for.  A pair is either over a   *)
(* type and the functions around it, or over a table, its trigger and    *)
(* the trigger function.                                                 *)

\* the database holding the objects
Db(objs) == [i \in {Id(o) : o \in objs} |-> CHOOSE o \in objs : Id(o) = i]

TypeT == [kind |-> "type", schema |-> SchemaName, name |-> "t"]

\* the type as a base type with its two converters
BaseTypeT == [kind |-> "type", schema |-> SchemaName, name |-> "t",
              input |-> "s1.tin", output |-> "s1.tout"]

FunctionTin(src) ==
    [kind |-> "function", schema |-> SchemaName, name |-> "tin",
     arguments |-> "cstring", returns |-> "t", language |-> "internal",
     source |-> src]

FunctionTout ==
    [kind |-> "function", schema |-> SchemaName, name |-> "tout",
     arguments |-> "t", returns |-> "cstring", language |-> "internal",
     source |-> "src1"]

\* a function that shares the name of the input converter
FunctionTinOverload ==
    [kind |-> "function", schema |-> SchemaName, name |-> "tin",
     arguments |-> "t", returns |-> "integer", language |-> "sql",
     source |-> "src1"]

Sources == {"src1", "src2"}

\* the type, and any of the functions that mention it
PlainTypeDbs ==
    {Db({TypeT} \cup fin \cup fout \cup fov) :
        fin \in {{}} \cup {{FunctionTin(src)} : src \in Sources},
        fout \in {{}, {FunctionTout}},
        fov \in {{}, {FunctionTinOverload}}}

\* the base type with its converters, and possibly the overload
BaseTypeDbs ==
    {Db({BaseTypeT, FunctionTin(src), FunctionTout} \cup fov) :
        src \in Sources, fov \in {{}, {FunctionTinOverload}}}

TableT1 == [kind |-> "table", schema |-> SchemaName, name |-> TableName]

FunctionF ==
    [kind |-> "function", schema |-> SchemaName, name |-> "f",
     arguments |-> "", returns |-> "trigger", language |-> "plpgsql",
     source |-> "src1"]

FunctionFs == {FunctionF, Setattr(FunctionF, "leakproof", "True")}

TriggerOn(events, procedure) ==
    [kind |-> "trigger", schema |-> SchemaName, table |-> TableName,
     name |-> "tr", timing |-> "before", level |-> "row",
     events |-> events, procedure |-> procedure]

\* the triggers that run the text search helper, on the update of a column
HelperTriggers ==
    {Setattr(TriggerOn(<<"update">>, "tsvector_update_trigger()"),
             "columns", cols) : cols \in {<<"a">>, <<"b">>}}

\* the triggers that run the function f of the database
RoutineTriggers == {TriggerOn(<<"insert">>, p) : p \in {"f()", "f"}}

TriggerDbs ==
    {Db(f) : f \in {{}} \cup {{x} : x \in FunctionFs}}
      \cup {Db({TableT1} \cup trg) :
              trg \in {{}} \cup {{x} : x \in HelperTriggers}}
      \cup {Db({TableT1, f} \cup trg) :
              f \in FunctionFs,
              trg \in {{}} \cup {{x} : x \in HelperTriggers \cup RoutineTriggers}}

\* the pairs of an observed and a desired database: a type that both
\* hold is the same in both
DbPairs ==
    (({EmptyDict} \cup PlainTypeDbs) \X ({EmptyDict} \cup PlainTypeDbs))
      \cup (({EmptyDict} \cup BaseTypeDbs) \X ({EmptyDict} \cup BaseTypeDbs))
      \cup (TriggerDbs \X TriggerDbs)
      \cup ((PlainTypeDbs \cup BaseTypeDbs) \X TriggerDbs)
      \cup (TriggerDbs \X (PlainTypeDbs \cup BaseTypeDbs))

-----------------------------------------------------------------------------
(* Computing the plan: the dependencies of both databases, then the      *)
(* objects of the desired database in dependency order, created or       *)
(* altered, then the objects of the observed database in the reverse     *)
(* order, dropped when the desired database lacks them.                  *)

\* the dependencies of every object of db
DepsOf(db) == [i \in DOMAIN db |-> GetDeps(db, i).deps]

\* whether get_deps raises on some object of db
DepsRaise(db) == \E i \in DOMAIN db : GetDeps(db, i).raised # "none"

\* one entry of the plan for each statement of an operation
Entries(id, op, stmts) ==
    [k \in 1..Len(stmts) |-> [id |-> id, op |-> op, stmt |-> stmts[k]]]

\* get_deps on every object of both databases
ExtractDeps ==
    /\ ppc = "extract"
    /\ IF DepsRaise(old) \/ DepsRaise(new)
       THEN /\ ppc' = "failed"
            /\ UNCHANGED <<old, new, odeps, ndeps>>
       ELSE /\ ppc' = "create"
            /\ odeps' = DepsOf(old)
            /\ ndeps' = DepsOf(new)
            /\ old' = AfterGetDeps(old)
            /\ new' = AfterGetDeps(new)
    /\ UNCHANGED <<pdone, oshell, nshell, plan, sim>>

\* the next object of the desired database whose dependencies are done:
\* new.create() when the observed database lacks it
CreateStep ==
    /\ ppc = "create"
    /\ \E id \in DOMAIN new \ (pdone \cup DOMAIN old) :
          /\ ndeps[id] \subseteq pdone
          /\ LET r == CreateObj(new[id], nshell)
             IN  /\ plan' = plan \o Entries(id, "create", r.stmts)
                 /\ sim' = ApplyAll(sim, r.stmts)
                 /\ nshell' = r.shell
          /\ pdone' = pdone \cup {id}
    /\ UNCHANGED <<ppc, old, new, odeps, ndeps, oshell>>

\* the same, old.alter(new) when the observed database has the object
AlterStep ==
    /\ ppc = "create"
    /\ \E id \in (DOMAIN new \cap DOMAIN old) \ pdone :
          /\ ndeps[id] \subseteq pdone
          /\ LET r == AlterObj(old[id], new[id], oshell)
             IN  /\ plan' = plan \o Entries(id, "alter", r.stmts)
                 /\ sim' = ApplyAll(sim, r.stmts)
                 /\ oshell' = r.shell
                 /\ old' = [old EXCEPT ![id] = r.self]
          /\ pdone' = pdone \cup {id}
    /\ UNCHANGED <<ppc, new, odeps, ndeps, nshell>>

\* every object of the desired database is done
FinishCreates ==
    /\ ppc = "create"
    /\ pdone = DOMAIN new
    /\ ppc' = "drop"
    /\ pdone' = {}
    /\ UNCHANGED <<old, new, odeps, ndeps, oshell, nshell, plan, sim>>

\* the next object of the observed database that nothing left depends on:
\* old.drop() when the desired database lacks it
DropStep ==
    /\ ppc = "drop"
    /\ \E id \in DOMAIN old \ pdone :
          /\ \A x \in DOMAIN old \ pdone : id \notin odeps[x]
          /\ LET stmts == IF id \in DOMAIN new THEN <<>> ELSE DropObj(old[id])
             IN  /\ plan' = plan \o Entries(id, "drop", stmts)
                 /\ sim' = ApplyAll(sim, stmts)
          /\ pdone' = pdone \cup {id}
    /\ UNCHANGED <<ppc, old, new, odeps, ndeps, oshell, nshell>>

\* every object of the observed database is done
FinishDrops ==
    /\ ppc = "drop"
    /\ pdone = DOMAIN old
    /\ ppc' = "done"
    /\ UNCHANGED <<old, new, odeps, ndeps, pdone, oshell, nshell, plan, sim>>

\* the observed database comes from the catalogs, the desired one from a
\* map, with link_refs
PlanInit ==
    /\ ppc = "extract"
    /\ \E pair \in DbPairs : old = pair[1] /\ new = LinkRefs(pair[2])
    /\ odeps = EmptyDict /\ ndeps = EmptyDict
    /\ pdone = {} /\ oshell = {} /\ nshell = {}
    /\ plan = <<>>
    /\ sim = StateOf(old)

PlanNext ==
    \/ ExtractDeps /\ UNCHANGED <<ldvars, dfvars, dxvars>>
    \/ CreateStep /\ UNCHANGED <<ldvars, dfvars, dxvars>>
    \/ AlterStep /\ UNCHANGED <<ldvars, dfvars, dxvars>>
    \/ FinishCreates /\ UNCHANGED <<ldvars, dfvars, dxvars>>
    \/ DropStep /\ UNCHANGED <<ldvars, dfvars, dxvars>>
    \/ FinishDrops /\ UNCHANGED <<ldvars, dfvars, dxvars>>

-----------------------------------------------------------------------------
(* The dependencies of one object: get_implied_deps() and get_deps() on  *)
(* an object of a database that holds the objects it refers to, unless   *)
(* they are built in or owned by an extension.                           *)

\* Aggregate.get_implied_deps: the transition and the final function
AggregateImpliedDeps(self, db) ==
    LET sf == SplitSchemaObj(self["sfunc"], "public")
        trans == FindFunction(db, sf[1], sf[2],
                              self["stype"] \o ", " \o self["arguments"])
        ff == SplitSchemaObj(Getattr(self, "finalfunc"), "public")
        final == IF Hasattr(self, "finalfunc")
                 THEN FindFunction(db, ff[1], ff[2], self["stype"])
                 ELSE {}
    IN  IF Missing(trans) \/ (Hasattr(self, "finalfunc") /\ Missing(final))
        THEN [raised |-> "KeyError", deps |-> {}]
        ELSE [raised |-> "none",
              deps |-> ProcImpliedDeps(self, db) \cup trans \cup final]

\* TSConfiguration.get_implied_deps: the parser
TSConfigurationImpliedDeps(self, db) ==
    LET sn == SplitSchemaObj(self["parser"], self["schema"])
        found == {i \in DOMAIN db : /\ db[i]["kind"] = "tsparser"
                                     /\ db[i]["schema"] = sn[1]
                                     /\ db[i]["name"] = sn[2]}
    IN  IF Missing(found) THEN [raised |-> "KeyError", deps |-> {}]
        ELSE [raised |-> "none", deps |-> found]

\* get_implied_deps of an object
ImpliedDeps(self, db) ==
    CASE self["kind"] = "function" ->
           [raised |-> "none", deps |-> FunctionImpliedDeps(self, db)]
      [] self["kind"] = "aggregate" -> AggregateImpliedDeps(self, db)
      [] self["kind"] = "tsconfig" -> TSConfigurationImpliedDeps(self, db)
      [] self["kind"] = "trigger" -> TriggerImpliedDeps(self, db)
      [] OTHER -> [raised |-> "none", deps |-> {}]

\* the identifier of an object of any kind
ObjId(o) ==
    CASE o["kind"] = "aggregate" -> ProcIdentifier(o)
      [] o["kind"] = "language" -> o["name"]
      [] OTHER -> Id(o)

\* the database holding the objects
DbOf(objs) ==
    [i \in {ObjId(o) : o \in objs} |-> CHOOSE o \in objs : ObjId(o) = i]

\* the dependency machine, idle
DepsIdle ==
    /\ dxpc = "idle"
    /\ dxDb = EmptyDict
    /\ dxId = ""
    /\ dxImplied = {} /\ dxDeps = {}
    /\ dxRaised = "none"
    /\ dxSelf = EmptyDict

\* the functions asked for their dependencies
SubjectFunctions ==
    {[kind |-> "function", schema |-> SchemaName, name |-> n,
      arguments |-> args, returns |-> ret, language |-> lang,
      source |-> "src1"] :
        n \in {"f", "tin"},
        args \in {"", "integer", "t", "cstring", "a integer, b t"},
        ret \in {"integer", "t", "SETOF t"},
        lang \in {"sql", "plpgsql"}}

\* the aggregates: the functions called s1.sf and s1.ff are of the
\* database, int4pl and int8_avg are built in
SubjectAggregates ==
    {[kind |-> "aggregate", schema |-> SchemaName, name |-> "agg",
      arguments |-> "integer", stype |-> "integer", sfunc |-> sf] :
        sf \in {"s1.sf", "int4pl"}}
      \cup
    {[kind |-> "aggregate", schema |-> SchemaName, name |-> "agg",
      arguments |-> "integer", stype |-> "integer", sfunc |-> sf,
      finalfunc |-> ff] :
        sf \in {"s1.sf", "int4pl"}, ff \in {"s1.ff", "int8_avg"}}

\* the text search configurations: the parser p is of the database,
\* pg_catalog.default is built in
SubjectConfigurations ==
    {[kind |-> "tsconfig", schema |-> SchemaName, name |-> "c",
      parser |-> p] : p \in {"p", "s1.p", "pg_catalog.default"}}

\* the triggers: the function f is of the database, ext.audit is owned by
\* an extension, tsvector_update_trigger is built in
SubjectTriggers ==
    LET procs == {"tsvector_update_trigger()", "f()", "f", "s1.f()", "s1.f",
                  "ext.audit()", "ext.audit"}
        plain == {TriggerOn(<<"insert">>, p) : p \in procs}
    IN  plain \cup {Setattr(t, "_iscfg", "True") : t \in plain}

Subjects ==
    SubjectFunctions \cup SubjectAggregates \cup SubjectConfigurations
      \cup SubjectTriggers

LanguagePlpgsql == [kind |-> "language", name |-> "plpgsql"]

FunctionNamed(n, args) ==
    [kind |-> "function", schema |-> SchemaName, name |-> n,
     arguments |-> args, returns |-> "integer", language |-> "sql",
     source |-> "src1"]

ParserP == [kind |-> "tsparser", schema |-> SchemaName, name |-> "p"]

\* the objects of the database that an object refers to by name
Referents(o) ==
    CASE o["kind"] = "aggregate" ->
           (IF o["sfunc"] = "s1.sf"
            THEN {FunctionNamed("sf", "integer, integer")} ELSE {})
             \cup (IF Getattr(o, "finalfunc") = "s1.ff"
                   THEN {FunctionNamed("ff", "integer")} ELSE {})
      [] o["kind"] = "tsconfig" ->
           IF o["parser"] \in {"p", "s1.p"} THEN {ParserP} ELSE {}
      [] o["kind"] = "trigger" ->
           {TableT1} \cup (IF o["procedure"] \in {"f()", "f", "s1.f()", "s1.f"}
                           THEN {FunctionF} ELSE {})
      [] OTHER -> {}

\* the types and languages that the database may hold besides: none, the
\* language, the type, or the base type with its converters
Surroundings(o) ==
    IF o["kind"] \in {"function", "aggregate"}
    THEN {langs \cup types :
            langs \in {{}, {LanguagePlpgsql}},
            types \in {{}, {TypeT},
                       {BaseTypeT, FunctionTin("src1"), FunctionTout}}}
    ELSE {{}}

\* the databases with the object asked for its dependencies
SubjectDbs ==
    UNION {{<<ObjId(o), DbOf({x \in around : ObjId(x) # ObjId(o)}
                              \cup Referents(o) \cup {o})>> :
              around \in Surroundings(o)} : o \in Subjects}

DepsInit ==
    /\ dxpc = "loaded"
    /\ \E sd \in SubjectDbs : dxId = sd[1] /\ dxDb = sd[2]
    /\ dxImplied = {} /\ dxDeps = {}
    /\ dxRaised = "none"
    /\ dxSelf = dxDb[dxId]

\* get_implied_deps() on the object
DoGetImpliedDeps ==
    /\ dxpc = "loaded"
    /\ LET r == ImpliedDeps(dxDb[dxId], dxDb)
       IN  /\ dxRaised' = r.raised
           /\ dxImplied' = r.deps
           /\ dxpc' = IF r.raised = "none" THEN "implied" ELSE "raised"
    /\ UNCHANGED <<dxDb, dxId, dxDeps, dxSelf>>

\* get_deps() on the object: a function drops the types it defines
DoGetDeps ==
    /\ dxpc = "implied"
    /\ IF dxDb[dxId]["kind"] = "function"
       THEN LET r == FunctionGetDeps(dxDb[dxId], dxDb)
            IN  dxDeps' = r.deps /\ dxSelf' = r.self
       ELSE dxDeps' = dxImplied /\ UNCHANGED dxSelf
    /\ dxpc' = "done"
    /\ UNCHANGED <<dxDb, dxId, dxImplied, dxRaised>>

DepsNext ==
    \/ DoGetImpliedDeps /\ UNCHANGED <<ldvars, dfvars, plvars>>
    \/ DoGetDeps /\ UNCHANGED <<ldvars, dfvars, plvars>>

-----------------------------------------------------------------------------
(* The machines *)

\* the plan machine, idle
PlanIdle ==
    /\ ppc = "idle"
    /\ old = EmptyDict /\ new = EmptyDict
    /\ odeps = EmptyDict /\ ndeps = EmptyDict
    /\ pdone = {} /\ oshell = {} /\ nshell = {}
    /\ plan = <<>>
    /\ sim = EmptyDict

InitLoad == LoadInit /\ DiffIdle /\ PlanIdle /\ DepsIdle

SpecLoad == InitLoad /\ [][LoadNext]_vars

InitDiff == LoadIdle /\ PlanIdle /\ DepsIdle /\ DiffInit

SpecDiff == InitDiff /\ [][DiffNext]_vars

InitPlan == LoadIdle /\ DiffIdle /\ DepsIdle /\ PlanInit

SpecPlan == InitPlan /\ [][PlanNext]_vars

InitDeps == LoadIdle /\ DiffIdle /\ PlanIdle /\ DepsInit

SpecDeps == InitDeps /\ [][DepsNext]_vars

-----------------------------------------------------------------------------
(* Properties of loading and exporting *)

\* the object loaded by the from_map call, when there is one
Loaded == {ldDict[k] : k \in DOMAIN ldDict}

HasSource == "source" \in ldBody.attrs
HasObjFile == "obj_file" \in ldBody.attrs

\* the key starts with one of the two kind words and a space
ProcKindOf(key) ==
    IF StartsWith(key, "function ") THEN "function"
    ELSE IF StartsWith(key, "aggregate ") THEN "aggregate"
    ELSE "none"

\* a key of the form <kind word> <name>(<arguments>)
WellFormedProcKey(key) ==
    /\ ProcKindOf(key) # "none"
    /\ LET rest == SliceFrom(key, Len(ProcKindOf(key)) + 1)
       IN  /\ \E i \in 1..Len(rest) : SubSeq(rest, i, i) = "("
           /\ Len(rest) > 0 /\ SubSeq(rest, Len(rest), Len(rest)) = ")"

\* C7: a function entry (with a well-formed key) giving both source and
\* obj_file, or neither, fails to load with ValueError; one giving exactly
\* one of them loads; an aggregate entry with a body loads whatever it
\* gives of the two.
C7_ExactlyOneOfSourceObjFile ==
    (ldpc # "start" /\ ldKind = "proc" /\ WellFormedProcKey(ldKey)) =>
        /\ (ProcKindOf(ldKey) = "function" /\ HasSource = HasObjFile)
              => ldRaised = "ValueError"
        /\ (ProcKindOf(ldKey) = "function" /\ HasSource # HasObjFile)
              => ldRaised = "none"
        /\ (ProcKindOf(ldKey) = "aggregate" /\ Truthy(ldBody))
              => ldRaised = "none"

\* a function entry giving both source and obj_file was rejected
C7_Witness ==
    /\ ldpc = "done" /\ ldKind = "proc"
    /\ ProcKindOf(ldKey) = "function"
    /\ HasSource /\ HasObjFile
    /\ ldRaised = "ValueError"

\* C8: from_map raises KeyError exactly for the keys it cannot parse
\* (functions: no kind word and space, no "(", or no final ")"; operator
\* families: no "operator family " prefix or no " using "; text search
\* objects: no kind prefix), and a function or trigger entry with an empty
\* body raises ValueError.
C8_MalformedKeyAndEmptyBody ==
    ldpc # "start" =>
        /\ ldKind = "proc" =>
              /\ (ldRaised = "KeyError") <=> ~WellFormedProcKey(ldKey)
              /\ (WellFormedProcKey(ldKey) /\ ~Truthy(ldBody))
                    => ldRaised = "ValueError"
        /\ ldKind = "opfam" =>
              ((ldRaised = "KeyError") <=>
                  (~StartsWith(ldKey, "operator family ")
                     \/ \A i \in 1..(Len(ldKey) - 6) :
                           SubSeq(ldKey, i, i + 6) # " using "))
        /\ ldKind \in TSClasses =>
              ((ldRaised = "KeyError") <=> ~StartsWith(ldKey, TSPrefix(ldKind)))
        /\ ldKind = "trigger" =>
              ((ldRaised = "ValueError") <=> ~Truthy(ldBody))

\* a function key with the kind word but no closing parenthesis was rejected
C8_Witness ==
    /\ ldpc = "done" /\ ldKind = "proc"
    /\ StartsWith(ldKey, "function ")
    /\ Contains(ldKey, "(")
    /\ ldRaised = "KeyError"

\* C9: the extern_key() of the object loaded from an accepted function,
\* aggregate or operator family key is that key.
C9_KeyRoundTrip == ldpc = "exported" => ldExtern = {ldKey}

-----------------------------------------------------------------------------
(* Properties of comparing one object with its desired counterpart *)

\* C3: comparing an object with an identical one emits no statement:
\* Function.alter of a function against a function with the same
\* attributes, and Trigger.diff_map of a trigger against an identical
\* trigger, return no statement.
C3_Idempotence ==
    (dfpc = "done" /\ dfOld = dfNew) => dfStmts = <<>>

\* the attributes of a trigger whose change means drop and create
RecreateAttrs ==
    {"constraint", "deferrable", "initially_deferred", "condition",
     "procedure", "timing", "level"}

TriggerDiffers(o, n) ==
    \/ \E a \in RecreateAttrs : Getattr(o, a) # Getattr(n, a)
    \/ Range(o["events"]) # Range(n["events"])

\* C10: diff_map returns DROP TRIGGER followed by the CREATE TRIGGER of the
\* desired trigger (its events in any order) exactly when one of
\* constraint, deferrable, initially_deferred, condition, procedure,
\* timing, level or the set of events differs, nothing when none does, and
\* never an ALTER TRIGGER.
C10_TriggerDropAndRecreate ==
    (dfpc = "done" /\ dfKind = "trigger") =>
        /\ TriggerDiffers(dfOld, dfNew) =>
              /\ Range(dfSelf["events"]) = Range(dfNew["events"])
              /\ dfStmts =
                   <<[verb |-> "DROP TRIGGER",
                      name |-> TriggerIdentifier(dfNew)]>>
                     \o TriggerCreate(Setattr(dfNew, "events", dfSelf["events"]))
        /\ ~TriggerDiffers(dfOld, dfNew) => dfStmts = <<>>
        /\ \A i \in 1..Len(dfStmts) : dfStmts[i].verb # "ALTER TRIGGER"


-----------------------------------------------------------------------------
(* Properties of the plan *)

\* the positions of the plan that belong to the object and are of the kinds
Positions(id, ops) ==
    {k \in 1..Len(plan) : plan[k].id = id /\ plan[k].op \in ops}

\* whether the signature of a function mentions the type
MentionsType(f, t) ==
    LET names == {t["name"], Qualname(t)}
        ret == IF StartsWith(f["returns"], "SETOF ")
               THEN SliceFrom(f["returns"], 6) ELSE f["returns"]
    IN  \/ ret \in names
        \/ /\ f["arguments"] # ""
           /\ \E a \in Range(Split(f["arguments"], ", ")) : LastWord(a) \in names

\* whether the type names a function called like f as one of its converters
NamesRoutine(t, f) ==
    \E attr \in ConverterAttrs : Hasattr(t, attr) /\ t[attr] = Qualname(f)

\* the dependency edges <<a, b>>, a depending on b, that a database must
\* give: a function on the types of its signature unless the type names
\* it, a type on its converters, a trigger on its table and its routine
ExpectedEdges(db) ==
    {e \in (DOMAIN db) \X (DOMAIN db) :
        LET a == db[e[1]]
            b == db[e[2]]
        IN  \/ /\ a["kind"] = "function" /\ b["kind"] = "type"
               /\ MentionsType(a, b) /\ ~NamesRoutine(b, a)
            \/ /\ a["kind"] = "type" /\ b["kind"] = "function"
               /\ \E attr \in ConverterAttrs :
                     /\ Hasattr(a, attr) /\ a[attr] = Qualname(b)
                     /\ b["arguments"] = ConverterArgs(a, attr)
            \/ /\ a["kind"] = "trigger" /\ b["kind"] = "table"
               /\ a["schema"] = b["schema"] /\ a["table"] = b["name"]
            \/ /\ a["kind"] = "trigger" /\ b["kind"] = "function"
               /\ ~StartsWith(a["procedure"], "tsvector_update_trigger")
               /\ a["procedure"] = b["name"] /\ b["arguments"] = ""}

\* C1: when the plan is complete, running its statements on the observed
\* database, keeping the existence and the attributes of each object,
\* gives exactly the desired database.
C1_PlanReachesDesired == ppc = "done" => sim = StateOf(new)

DefiningRoutines(t) ==
    {i \in DOMAIN new : new[i]["kind"] = "function"
                          /\ Getattr(new[i], "_defining") = t}

\* the converters of the type: the routines R1..Rn
Converters(t) == FindDefiningFuncs(new[t], new)

\* the positions of the shell declaration of the type
ShellPositions(t) ==
    {k \in 1..Len(plan) : IsShell(plan[k].stmt) /\ plan[k].stmt.name = t}

\* the positions of the CREATE FUNCTION of the defining routines of the type
RoutinePositions(t) ==
    {k \in 1..Len(plan) : /\ plan[k].id \in DefiningRoutines(t)
                           /\ plan[k].op = "create"
                           /\ plan[k].stmt.verb = "CREATE FUNCTION"}

\* the positions of the full definition of the type
FullPositions(t) ==
    {k \in 1..Len(plan) : plan[k].id = t /\ plan[k].op = "create"}

\* the base types that the plan has to create
NewBaseTypes ==
    {t \in DOMAIN new \ DOMAIN old :
        new[t]["kind"] = "type" /\ Hasattr(new[t], "input")}

\* C4: for a base type that the plan creates, in whatever order create()
\* runs on its defining routines, the shell CREATE TYPE is emitted at most
\* once, before the CREATE FUNCTION of every defining routine, the full
\* definition comes after the CREATE FUNCTION of all the converters, and
\* once the creations are over there are exactly one shell, the CREATE
\* FUNCTION of every routine and the full definition.
C4_ShellOnceBeforeRoutines ==
    ppc \in {"create", "drop", "done"} =>
        \A t \in NewBaseTypes :
            /\ Cardinality(ShellPositions(t)) <= 1
            /\ \A r \in RoutinePositions(t) :
                  \E k \in ShellPositions(t) : k < r
            /\ \A d \in FullPositions(t) :
                  \A f \in Converters(t) :
                      \E r \in RoutinePositions(t) : plan[r].id = f /\ r < d
            /\ ppc \in {"drop", "done"} =>
                  /\ Cardinality(ShellPositions(t)) = 1
                  /\ Cardinality(FullPositions(t)) = 1
                  /\ \A f \in DefiningRoutines(t) \cup Converters(t) :
                        \E r \in RoutinePositions(t) : plan[r].id = f

\* a new base type whose creations are over, with several defining routines
C4_Witness ==
    /\ ppc = "drop"
    /\ \E t \in NewBaseTypes :
          /\ Cardinality(DefiningRoutines(t)) >= 2
          /\ Cardinality(RoutinePositions(t)) >= 2
          /\ FullPositions(t) # {}

\* whether the function is a converter of some type of the database
IsConverter(db, id) ==
    \E t \in DOMAIN db : /\ db[t]["kind"] = "type"
                          /\ id \in FindDefiningFuncs(db[t], db)

\* C5: of the functions that the desired database lacks, one marked as
\* defining a type gets no drop statement, and one that is the converter
\* of no type gets the ordinary DROP FUNCTION.
C5_DefiningNeverDropped ==
    ppc = "done" =>
        \A id \in DOMAIN old \ DOMAIN new :
            old[id]["kind"] = "function" =>
                /\ Hasattr(old[id], "_defining") => Positions(id, {"drop"}) = {}
                /\ ~IsConverter(old, id) =>
                      \E k \in Positions(id, {"drop"}) :
                          plan[k].stmt = [verb |-> "DROP FUNCTION", name |-> id]

\* the objects reached from the set along at most n more edges
RECURSIVE ReachN(_, _, _)
ReachN(deps, S, n) ==
    IF n = 0 THEN S
    ELSE ReachN(deps, S \cup UNION {deps[x] : x \in S}, n - 1)

\* whether no object depends on itself, directly or not
Acyclic(deps) ==
    \A i \in DOMAIN deps :
        i \notin ReachN(deps, deps[i], Cardinality(DOMAIN deps))

\* whether the edge to every type that names the function is gone
LoopEdgesRemoved(db, deps) ==
    \A f \in DOMAIN db : \A t \in DOMAIN db :
        (/\ db[f]["kind"] = "function" /\ db[t]["kind"] = "type"
         /\ NamesRoutine(db[t], db[f]) /\ MentionsType(db[f], db[t]))
            => t \notin deps[f]

\* C6: once get_deps ran on every object, the dependencies of each
\* database have no cycle, and no function keeps the edge to a type that
\* names it as a converter.
C6_AcyclicAfterGetDeps ==
    ppc \in {"create", "drop", "done"} =>
        /\ Acyclic(ndeps) /\ Acyclic(odeps)
        /\ LoopEdgesRemoved(new, ndeps) /\ LoopEdgesRemoved(old, odeps)

\* dependencies computed for a base type and a converter that mentions it
C6_Witness ==
    /\ ppc = "create"
    /\ \E f \in DOMAIN new : \E t \in DOMAIN new :
          /\ new[f]["kind"] = "function" /\ new[t]["kind"] = "type"
          /\ NamesRoutine(new[t], new[f]) /\ MentionsType(new[f], new[t])
          /\ f \in ndeps[t]


-----------------------------------------------------------------------------
(* Properties of rendering and comparing functions *)

\* the CREATE FUNCTION statement that create() ended with
Created == dfStmts[Len(dfStmts)]

\* the cost that the system gives a function of the language
DefaultCost(language) == IF language \in {"c", "internal"} THEN 1 ELSE 100

DefaultRows == 1000

\* whether the cost is missing or the default of the language
CostIsDefault(o) ==
    Hasattr(o, "cost") => o["cost"] = DefaultCost(o["language"])

\* the function called with create(), and its cost, differing or not
\* from the default
CostDiffers(o) ==
    Hasattr(o, "cost") /\ o["cost"] # DefaultCost(o["language"])

RowsDiffer(o) == Hasattr(o, "rows") /\ o["rows"] # DefaultRows

\* what alter() emits between two functions that differ in nothing that
\* it renders
NoVisibleDiff ==
    (/\ dfpc = "done" /\ dfKind = "function"
     /\ Delattr(dfOld, "cost") = Delattr(dfNew, "cost")
     /\ CostIsDefault(dfOld) /\ CostIsDefault(dfNew)) =>
        /\ \A i \in 1..Len(dfStmts) :
              /\ dfStmts[i].verb = "ALTER FUNCTION"
              /\ Getattr(dfOld, "leakproof") = "True"
        /\ Len(dfStmts) <= 1
        /\ CreateFunctionStmt(dfOld, None) = CreateFunctionStmt(dfNew, None)

IsLeakproof(o) == Getattr(o, "leakproof") = "True"

\* alter() ran on two functions of which one only is leakproof, and that
\* have everything else in common
OnlyLeakproofChanged ==
    /\ dfpc = "done" /\ dfKind = "function"
    /\ Delattr(dfOld, "leakproof") = Delattr(dfNew, "leakproof")
    /\ IsLeakproof(dfOld) # IsLeakproof(dfNew)

\* C12: when the observed and the desired function differ only in being
\* leakproof, alter() emits exactly one statement, ALTER FUNCTION ...
\* LEAKPROOF if the desired one is leakproof and ALTER FUNCTION ... NOT
\* LEAKPROOF if its flag is false or absent, and so no DROP and no CREATE.
C12_LeakproofPureAlter ==
    OnlyLeakproofChanged =>
        /\ Len(dfStmts) = 1
        /\ dfStmts[1].verb = "ALTER FUNCTION"
        /\ dfStmts[1].action =
              (IF IsLeakproof(dfNew) THEN "LEAKPROOF" ELSE "NOT LEAKPROOF")

\* alter() took the flag back from a leakproof function
C12_Witness ==
    /\ OnlyLeakproofChanged
    /\ IsLeakproof(dfOld)
    /\ dfStmts # <<>>


\* C13: when the observed and the desired function differ in the return
\* type, alter() emits a DROP FUNCTION and then a CREATE FUNCTION with the
\* new return type: never nothing, never a CREATE OR REPLACE alone.
C13_ReturnTypeDropCreate ==
    (dfpc = "done" /\ dfKind = "function"
       /\ dfOld["returns"] # dfNew["returns"]) =>
        \E i \in 1..Len(dfStmts) : \E j \in 1..Len(dfStmts) :
            /\ i < j
            /\ dfStmts[i].verb = "DROP FUNCTION"
            /\ dfStmts[j].verb = "CREATE FUNCTION"
            /\ dfStmts[j].returns = dfNew["returns"]


-----------------------------------------------------------------------------
(* Properties of the dependencies of one object *)

\* the object asked for its dependencies
Subject == dxDb[dxId]

\* whether the object refers to something built in or owned by an
\* extension: a function always does, by its language or its types
OutOfScope(o) ==
    CASE o["kind"] = "aggregate" ->
           o["sfunc"] = "int4pl" \/ Getattr(o, "finalfunc") = "int8_avg"
      [] o["kind"] = "tsconfig" -> o["parser"] = "pg_catalog.default"
      [] o["kind"] = "trigger" ->
           \/ StartsWith(o["procedure"], "ext.")
           \/ StartsWith(o["procedure"], "tsvector_update_trigger")
      [] OTHER -> o["kind"] = "function"

\* C14: get_implied_deps() raises no error on a reference to an object
\* that is built in or owned by an extension, whatever the kind of the
\* object that refers to it, and returns dependencies without it.
C14_OutOfScopeDroppedSilently ==
    (dxpc # "loaded" /\ OutOfScope(Subject)) =>
        /\ dxRaised = "none"
        /\ dxImplied \subseteq DOMAIN dxDb

\* C15: alter() and diff_map() leave every attribute of the observed and
\* of the desired object as it was before the comparison.
C15_DiffLeavesObjectsUnchanged ==
    dfpc = "done" => (dfSelf = dfOld /\ dfIn = dfNew)

\* whether the type designates this very function as a converter: the
\* name, and the argument list that the converter takes
DesignatesVery(t, f) ==
    \E attr \in ConverterAttrs :
        /\ Hasattr(t, attr) /\ t[attr] = Qualname(f)
        /\ f["arguments"] = ConverterArgs(t, attr)

\* C16: get_deps() takes a type out of the dependencies of a function and
\* marks the function as defining it only if the type designates this very
\* function, by schema, name and arguments; an overload of another
\* signature keeps its edge to the type and gets no mark.
C16_OnlyTheVeryRoutine ==
    (dxpc = "done" /\ Subject["kind"] = "function") =>
        \A t \in DOMAIN dxDb :
            (dxDb[t]["kind"] = "type" /\ ~DesignatesVery(dxDb[t], Subject)) =>
                /\ t \in dxImplied => t \in dxDeps
                /\ Getattr(dxSelf, "_defining") # t

\* the schema and the name of the routine that a trigger executes: the
\* procedure up to its argument list, in the schema of the trigger unless
\* it names one
ExecutedRoutine(trg) ==
    LET p == Find(trg["procedure"], "(")
        called == IF p = -1 THEN trg["procedure"]
                  ELSE Slice(trg["procedure"], 0, p)
        q == Find(called, ".")
    IN  IF q = -1 THEN <<trg["schema"], called>>
        ELSE <<Slice(called, 0, q), SliceFrom(called, q + 1)>>

\* whether the trigger records no routine
ExemptTrigger(trg) ==
    \/ Hasattr(trg, "_iscfg")
    \/ StartsWith(ExecutedRoutine(trg)[2], "tsvector_update_trigger")

\* C17: get_implied_deps() of a trigger always gives the table; an exempt
\* trigger gives nothing else and raises nothing; any other trigger gives
\* the routine it executes as well, found by schema, name and no argument.
C17_TriggerImpliedDeps ==
    (dxpc # "loaded" /\ Subject["kind"] = "trigger") =>
        LET rt == ExecutedRoutine(Subject)
            routine == FindFunction(dxDb, rt[1], rt[2], "")
        IN  /\ ExemptTrigger(Subject) =>
                  dxRaised = "none" /\ dxImplied = {Qualname(TableT1)}
            /\ (~ExemptTrigger(Subject) /\ routine # {}) =>
                  /\ dxRaised = "none"
                  /\ dxImplied = {Qualname(TableT1)} \cup routine

\* C18: every ALTER FUNCTION statement of alter() names the function by
\* its identifier, the qualified name followed by the arguments in
\* parentheses.
C18_AlterNamesIdentifier ==
    (dfpc = "done" /\ dfKind = "function") =>
        \A i \in 1..Len(dfStmts) :
            dfStmts[i].verb = "ALTER FUNCTION" =>
                dfStmts[i].name =
                    dfOld["schema"] \o "." \o dfOld["name"]
                      \o "(" \o dfOld["arguments"] \o ")"

-----------------------------------------------------------------------------
(* Properties of altering a function that defines a type *)

\* the functions of both databases that define a type of the observed one
\* and whose source changed
RedefinedRoutines ==
    {id \in DOMAIN old \cap DOMAIN new :
        /\ old[id]["kind"] = "function"
        /\ Hasattr(old[id], "_defining")
        /\ old[id]["source"] # new[id]["source"]}

\* C19: alter() on a function that defines a type of the observed
\* database and whose source changed emits a CREATE OR REPLACE FUNCTION
\* with the new source and no shell CREATE TYPE, whatever ran before.
C19_AlterDeclaresNoShell ==
    /\ \A k \in 1..Len(plan) : plan[k].op = "alter" => ~IsShell(plan[k].stmt)
    /\ ppc = "done" =>
          \A id \in RedefinedRoutines :
              \E k \in Positions(id, {"alter"}) :
                  /\ plan[k].stmt.verb = "CREATE OR REPLACE FUNCTION"
                  /\ Contains(plan[k].stmt.src, new[id]["source"])

-----------------------------------------------------------------------------
(* Properties of exporting a function *)

\* C20: to_map() keeps cost in the map exactly when create() renders a
\* COST clause, and keeps rows exactly when create() renders a ROWS
\* clause, for every language and value, 0 and unset included.
C20_ExportAgreesWithCreate ==
    (dfpc = "exported" /\ dfKind = "function") =>
        /\ Hasattr(dfMap, "cost") <=> CreateFunctionStmt(dfOld, None).cost # ""
        /\ Hasattr(dfMap, "rows") <=> CreateFunctionStmt(dfOld, None).rows # ""

-----------------------------------------------------------------------------
(* Properties of a rejected entry *)

\* the registry key under which the entry being loaded is stored
EntryKey ==
    IF ldKind = "proc" THEN ObjKey(NewProc(ldKey))
    ELSE <<SchemaName, TableName, ldKey>>

\* C21: when from_map raises on a function or aggregate entry (KeyError
\* for a malformed key, ValueError for an empty body or for source and
\* obj_file both given or both missing), the registry holds no object
\* under the key of that entry, just as when the trigger from_map raises
\* on an empty body.
C21_RejectedNeverRegistered ==
    (ldpc # "start" /\ ldKind \in {"proc", "trigger"} /\ ldRaised # "none") =>
        IF ldRaised = "KeyError" THEN ldDict = EmptyDict
        ELSE EntryKey \notin DOMAIN ldDict

====
